---- MODULE Spec2Model ----
(***************************************************************************)
(* A model of steam/core/msg/structs.py: the EMsg -> class registry, the   *)
(* fixed-layout struct messages and the variable-length record list of     *)
(* ClientMarketingMessageUpdate2.                                          *)
(*                                                                         *)
(* Bytes are numbers 0..255 and a buffer is a sequence of bytes.  Python   *)
(* integers are unbounded; the inputs drawn below keep every decoded       *)
(* number inside TLC's integer range.  An exception is a value of `err`.   *)
(***************************************************************************)
EXTENDS Integers, Sequences, FiniteSets, TLC

VARIABLES
    \* ---- the objects of the program
    heap,       \* the list objects: heap[r] is the content of list r
    objs,       \* the ClientMarketingMessageUpdate2 instances (their __dict__)
    \* ---- the frame of the running ClientMarketingMessageUpdate2.load
    pc,         \* "idle" | "start" | "loop" | "done" | "raised"
    self,       \* the instance load runs on
    data,       \* load's argument
    count,      \* the local `count` (the header's declared count)
    offset,     \* the local `offset`
    length,     \* the local `length`: <<>> until assigned, then <<value>>
    err,        \* the exception load ended with
    \* ---- observers of the run
    iter,       \* how many times the loop body was entered
    recStart,   \* `offset` when the last loop body was entered
    parsed,     \* TRUE when the last loop body appended its record
    hiRead,     \* the highest buffer index an unpack has read so far
    given,      \* how the buffer was built: [wf, time, count, recs]
    \* ---- the callers of ClientMarketingMessageUpdate2
    ctor,       \* TRUE while load runs inside __init__
    mutated,    \* the instance whose list a caller changed last (0: none)
    before,     \* every instance's messages just before that change
    ser,        \* <<>>, or the last serialize call: <<[obj, err, bytes]>>
    \* ---- the registry
    emsg_map,   \* _emsg_map: a dict from EMsg values to classes
    defined,    \* the classes created by StructMessageMeta so far, in order
    got,        \* <<>>, or the last get_struct call: <<[key, value]>>
    \* ---- one fixed-layout message and its callers
    py3,        \* TRUE under Python 3, FALSE under Python 2
    kind,       \* the message's class
    msg,        \* the message's __dict__
    op,         \* the last call: "new", "set", "serialize", "decode", "load", "construct"
    wire,       \* what serialize gave: [err, bytes]
    copy,       \* what decoding `wire` gave: [err, obj]
    arg,        \* the buffer of the last load or constructor call
    res         \* the exception the last load or constructor call ended with

loadVars == <<heap, objs, pc, self, data, count, offset, length, err,
              iter, recStart, parsed, hiRead, given>>
heapVars == <<ctor, mutated, before, ser>>
regVars == <<emsg_map, defined, got>>
fixedVars == <<py3, kind, msg, op, wire, copy, arg, res>>
vars == <<loadVars, heapVars, regVars, fixedVars>>

----------------------------------------------------------------------------
(* Exceptions *)
NoError    == "none"
StructError == "struct.error"
NotImplementedError == "NotImplementedError"
AttributeError == "AttributeError"
ValueError == "ValueError"
UnicodeDecodeError == "UnicodeDecodeError"

----------------------------------------------------------------------------
(* struct: little-endian ("<") packing, no alignment *)

RECURSIVE PackUInt(_, _)
\* v as w little-endian bytes
PackUInt(v, w) ==
    IF w = 0 THEN <<>> ELSE <<v % 256>> \o PackUInt(v \div 256, w - 1)

RECURSIVE UnpackUInt(_)
\* the number w little-endian bytes stand for
UnpackUInt(b) ==
    IF b = <<>> THEN 0 ELSE b[1] + 256 * UnpackUInt(Tail(b))

\* one format item: a code and, for "s", its repeat count
Item(c)  == [c |-> c, n |-> 1]
Str(n)   == [c |-> "s", n |-> n]

Width(f) ==
    CASE f.c = "s"          -> f.n
      [] f.c \in {"I", "L"} -> 4
      [] f.c = "Q"          -> 8
      [] f.c = "?"          -> 1

RECURSIVE CalcSize(_)
CalcSize(fmt) ==
    IF fmt = <<>> THEN 0 ELSE Width(Head(fmt)) + CalcSize(Tail(fmt))

\* "%d" of a negative count writes a '-' into the format string, which the
\* struct module rejects ("bad char in struct format")
FmtValid(fmt) == \A i \in 1..Len(fmt) : fmt[i].n >= 0

UnpackItem(f, b) ==
    CASE f.c = "s" -> b
      [] f.c = "?" -> (b[1] # 0)
      [] OTHER     -> UnpackUInt(b)

RECURSIVE UnpackFields(_, _)
UnpackFields(fmt, b) ==
    IF fmt = <<>> THEN <<>>
    ELSE LET w == Width(Head(fmt)) IN
         <<UnpackItem(Head(fmt), SubSeq(b, 1, w))>>
            \o UnpackFields(Tail(fmt), SubSeq(b, w + 1, Len(b)))

\* struct.unpack_from(fmt, buf, off): an error for a bad format or a buffer
\* with fewer than CalcSize(fmt) bytes after off, else the values; `hi` is
\* the index of the last byte it read
UnpackFrom(fmt, buf, off) ==
    IF ~FmtValid(fmt) THEN [err |-> StructError, vals |-> <<>>, hi |-> 0]
    ELSE IF off + CalcSize(fmt) > Len(buf)
         THEN [err |-> StructError, vals |-> <<>>, hi |-> 0]
         ELSE [err  |-> NoError,
               vals |-> UnpackFields(fmt, SubSeq(buf, off + 1, off + CalcSize(fmt))),
               hi   |-> off + CalcSize(fmt)]

Max(a, b) == IF a >= b THEN a ELSE b

----------------------------------------------------------------------------
(* ClientMarketingMessageUpdate2 *)

\* the list object made by the class body's `messages = list()`
ClassMessages == 1

\* a new instance: nothing in its __dict__
NewInstance == [time |-> <<>>, messages |-> <<>>]

\* attribute lookup: the instance's own value, else the class's
Time(o)        == IF o.time = <<>> THEN 0 ELSE o.time[1]
MessagesRef(o) == IF o.messages = <<>> THEN ClassMessages ELSE o.messages[1]
Messages(o)    == heap[MessagesRef(o)]
Count(o)       == Len(Messages(o))

\* class MarketingMessage
MarketingMessage(id, url, flags) == [id |-> id, url |-> url, flags |-> flags]

HeaderFmt == <<Item("I"), Item("I")>>
HeaderSize == 4 + 4

\* a faulty variant of UrlLength: the length field's own four bytes are not taken off
UrlLengthNoSelf(len) == len - 8 - 4

UrlLength(len) == len - 4 - 8 - 4

\* a faulty variant of RecordFmt: a negative text width is read as an empty text
RecordFmtClamped(url_length) ==
    <<Item("Q"), Str(Max(url_length - 1, 0)), Str(1), Item("I")>>

\* "<Q%dssI" % (url_length - 1)
RecordFmt(url_length) == <<Item("Q"), Str(url_length - 1), Str(1), Item("I")>>

\* a faulty variant of Advance: the length field's four bytes are counted again
AdvanceTwice(off, url_length) == off + 4 + 8 + url_length + 4

\* `offset += 8 + url_length + 4`
Advance(off, url_length) == off + 8 + url_length + 4

\* a faulty variant of RecordOf: the pad byte is kept in the url
RecordOfWithPad(v) == MarketingMessage(v[1], v[2] \o v[3], v[4])

\* `m.id, m.url, _, m.flags = ...`
RecordOf(v) == MarketingMessage(v[1], v[2], v[4])

\* line 242: unpack the header, then bind a new list to self.messages
LoadHeader ==
    /\ pc = "start"
    /\ LET u == UnpackFrom(HeaderFmt, data, 0) IN
       IF u.err # NoError
       THEN /\ pc' = "raised"
            /\ err' = u.err
            /\ UNCHANGED <<heap, objs, count, offset, hiRead>>
       ELSE /\ heap' = Append(heap, <<>>)
            /\ objs' = [objs EXCEPT ![self] =
                          [time |-> <<u.vals[1]>>, messages |-> <<Len(heap) + 1>>]]
            /\ count' = u.vals[2]
            /\ offset' = HeaderSize
            /\ hiRead' = Max(hiRead, u.hi)
            /\ pc' = "loop"
            /\ err' = NoError
    /\ UNCHANGED <<self, data, length, iter, recStart, parsed, given>>
    /\ UNCHANGED <<heapVars, regVars, fixedVars>>

\* lines 245-254: one pass of the loop body
LoadRecord ==
    /\ pc = "loop"
    /\ offset < Len(data)
    /\ iter' = iter + 1
    /\ recStart' = offset
    /\ LET l == UnpackFrom(<<Item("I")>>, data, offset) IN
       IF l.err # NoError
       THEN /\ pc' = "raised"
            /\ err' = l.err
            /\ parsed' = FALSE
            /\ UNCHANGED <<heap, offset, length, hiRead>>
       ELSE LET len        == l.vals[1]
                url_length == UrlLength(len)
                off4       == offset + 4
                r          == UnpackFrom(RecordFmt(url_length), data, off4)
            IN  /\ length' = <<len>>
                /\ IF r.err # NoError
                   THEN /\ pc' = "raised"
                        /\ err' = r.err
                        /\ parsed' = FALSE
                        /\ offset' = off4
                        /\ hiRead' = Max(hiRead, l.hi)
                        /\ UNCHANGED heap
                   ELSE /\ heap' = [heap EXCEPT ![MessagesRef(objs[self])] =
                                       Append(@, RecordOf(r.vals))]
                        /\ offset' = Advance(off4, url_length)
                        /\ hiRead' = Max(hiRead, r.hi)
                        /\ parsed' = TRUE
                        /\ UNCHANGED <<pc, err>>
    /\ UNCHANGED <<objs, self, data, count, given>>
    /\ UNCHANGED <<heapVars, regVars, fixedVars>>

\* line 245: the loop condition is false, load returns
LoadReturn ==
    /\ pc = "loop"
    /\ ~(offset < Len(data))
    /\ pc' = "done"
    /\ UNCHANGED <<heap, objs, self, data, count, offset, length, err,
                   iter, recStart, parsed, hiRead, given>>
    /\ UNCHANGED <<heapVars, regVars, fixedVars>>

----------------------------------------------------------------------------
(* The buffers load is run on *)

MaxRecords == 2
MaxUrlLen  == 2

Times   == {0, 100}
Counts  == {0, 2}
Ids     == {1, 2}
Flags   == {0, 5}

\* n times the byte b
Rep(b, n) == [i \in 1..n |-> b]

\* "", "a", "bb", ...
Urls == {Rep(96 + n, n) : n \in 0..MaxUrlLen}

Records == {MarketingMessage(i, u, f) : i \in Ids, u \in Urls, f \in Flags}

\* the bytes one record takes on the wire, its own length field included
Span(r) == 4 + 8 + Len(r.url) + 1 + 4

\* a record on the wire, with `len` written in its length field
RecordBytes(len, r) ==
    PackUInt(len, 4) \o PackUInt(r.id, 8) \o r.url \o <<0>> \o PackUInt(r.flags, 4)

HeaderBytes(t, c) == PackUInt(t, 4) \o PackUInt(c, 4)

RECURSIVE Concat(_)
Concat(ss) == IF ss = <<>> THEN <<>> ELSE Head(ss) \o Concat(Tail(ss))

\* the well-formed buffer of a time, a declared count and a list of records
Encode(t, c, recs) ==
    HeaderBytes(t, c) \o Concat([i \in 1..Len(recs) |-> RecordBytes(Span(recs[i]), recs[i])])

SeqsUpTo(S, n) == UNION {[1..k -> S] : k \in 0..n}

\* length fields that do not match the record: too small by one, too large
\* by one, a text width of zero, of minus one, of minus sixteen, and huge
BadLengths(r) == {Span(r) - 1, Span(r) + 1, 16, 15, 0, 16777216 + Span(r)}

\* the record that is given a wrong length field (and the one after it)
BadRecord == MarketingMessage(1, Rep(97, 1), 0)

\* how many bytes are cut off the end of a buffer
Cuts == {1, 4, 5, 16}

\* the variables of the other specifications, at rest
HeapIdle  == ctor = FALSE /\ mutated = 0 /\ before = <<>> /\ ser = <<>>
RegIdle   == emsg_map = <<>> /\ defined = <<>> /\ got = <<>>
FixedIdle ==
    /\ py3 = TRUE /\ kind = "" /\ msg = <<>> /\ op = "new"
    /\ wire = <<>> /\ copy = <<>> /\ arg = <<>> /\ res = NoError

\* the frame of load, with no call running
LoadIdle ==
    /\ heap = << <<>> >> /\ objs = <<>> /\ pc = "idle" /\ self = 0
    /\ data = <<>> /\ count = 0 /\ offset = 0 /\ length = <<>>
    /\ err = NoError /\ iter = 0 /\ recStart = 0 /\ parsed = FALSE
    /\ hiRead = 0
    /\ given = [wf |-> FALSE, time |-> 0, count |-> 0, recs |-> <<>>]

LoadInit ==
    /\ HeapIdle /\ RegIdle /\ FixedIdle
    /\ heap = << <<>> >>
    /\ objs = <<NewInstance>>
    /\ pc = "start"
    /\ self = 1
    /\ count = 0
    /\ offset = 0
    /\ length = <<>>
    /\ err = NoError
    /\ iter = 0
    /\ recStart = 0
    /\ parsed = FALSE
    /\ hiRead = 0
    /\ \E t \in Times, c \in Counts, recs \in SeqsUpTo(Records, MaxRecords) :
         \/ /\ data = Encode(t, c, recs)
            /\ given = [wf |-> TRUE, time |-> t, count |-> c, recs |-> recs]
         \/ \E k \in Cuts :
              /\ k <= Len(Encode(t, c, recs))
              /\ data = SubSeq(Encode(t, c, recs), 1, Len(Encode(t, c, recs)) - k)
              /\ given = [wf |-> FALSE, time |-> t, count |-> c, recs |-> recs]
         \/ \E bad \in BadLengths(BadRecord), tail \in {<<>>, <<BadRecord>>} :
              /\ Len(recs) < MaxRecords
              /\ data = Encode(t, c, recs) \o RecordBytes(bad, BadRecord)
                           \o Concat([i \in 1..Len(tail) |->
                                         RecordBytes(Span(tail[i]), tail[i])])
              /\ given = [wf |-> FALSE, time |-> t, count |-> c, recs |-> recs]

LoadNext == LoadHeader \/ LoadRecord \/ LoadReturn

SpecLoad == LoadInit /\ [][LoadNext]_vars

----------------------------------------------------------------------------
(* Callers that build, load and change several instances, under SpecHeap *)

MaxObjs    == 3
MaxLists   == 3
MaxListLen == 2

\* a constructor argument: None, or a buffer
None       == [none |-> TRUE,  bytes |-> <<>>]
Bytes(b)   == [none |-> FALSE, bytes |-> b]

\* `if data:` is false for None and for an empty buffer
Truthy(d) == ~d.none /\ Len(d.bytes) > 0

OneRecord == MarketingMessage(1, <<97>>, 0)

HeapBuffers ==
    { <<>>,                                   \* empty
      Encode(100, 0, <<>>),                   \* a header and no record
      Encode(100, 1, <<OneRecord>>),          \* a header and one record
      SubSeq(Encode(100, 0, <<>>), 1, 7) }    \* a truncated header

\* no load is running and no constructor is unwinding
AtRest == pc \in {"idle", "done"} \/ (pc = "raised" /\ ~ctor)

\* a call of load(d) on instance i
EnterLoad(i, d) ==
    /\ pc' = "start"
    /\ self' = i
    /\ data' = d
    /\ count' = 0
    /\ offset' = 0
    /\ length' = <<>>
    /\ err' = NoError
    /\ iter' = 0
    /\ recStart' = 0
    /\ parsed' = FALSE
    /\ hiRead' = 0

\* StructMessage.__init__: ClientMarketingMessageUpdate2(d)
Construct(d) ==
    /\ AtRest
    /\ Len(objs) < MaxObjs
    /\ Len(heap) < MaxLists
    /\ mutated' = 0
    /\ before' = <<>>
    /\ UNCHANGED <<ser, regVars, fixedVars>>
    /\ IF Truthy(d)
       THEN /\ objs' = Append(objs, NewInstance)
            /\ EnterLoad(Len(objs) + 1, d.bytes)
            /\ ctor' = TRUE
            /\ UNCHANGED <<heap, given>>
       ELSE /\ objs' = Append(objs, NewInstance)
            /\ pc' = "idle"
            /\ ctor' = FALSE
            /\ UNCHANGED <<heap, self, data, count, offset, length, err,
                           iter, recStart, parsed, hiRead, given>>

\* the constructor's load raised: the caller gets no instance
Unwind ==
    /\ pc = "raised"
    /\ ctor
    /\ objs' = SubSeq(objs, 1, Len(objs) - 1)
    /\ pc' = "idle"
    /\ ctor' = FALSE
    /\ UNCHANGED <<heap, self, data, count, offset, length, err,
                   iter, recStart, parsed, hiRead, given, mutated, before>>
    /\ UNCHANGED <<ser, regVars, fixedVars>>

\* a caller's i.load(b)
CallLoad(i, b) ==
    /\ AtRest
    /\ Len(heap) < MaxLists
    /\ EnterLoad(i, b)
    /\ ctor' = FALSE
    /\ mutated' = 0
    /\ before' = <<>>
    /\ UNCHANGED <<heap, objs, given, ser, regVars, fixedVars>>

Snapshot == [j \in 1..Len(objs) |-> Messages(objs[j])]

\* a caller's i.messages.append(r)
AppendTo(i, r) ==
    /\ AtRest
    /\ Len(Messages(objs[i])) < MaxListLen
    /\ heap' = [heap EXCEPT ![MessagesRef(objs[i])] = Append(@, r)]
    /\ mutated' = i
    /\ before' = Snapshot
    /\ UNCHANGED <<objs, pc, self, data, count, offset, length, err,
                   iter, recStart, parsed, hiRead, given, ctor>>
    /\ UNCHANGED <<ser, regVars, fixedVars>>

\* a caller's i.messages.pop()
RemoveFrom(i) ==
    /\ AtRest
    /\ Len(Messages(objs[i])) > 0
    /\ heap' = [heap EXCEPT ![MessagesRef(objs[i])] = SubSeq(@, 1, Len(@) - 1)]
    /\ mutated' = i
    /\ before' = Snapshot
    /\ UNCHANGED <<objs, pc, self, data, count, offset, length, err,
                   iter, recStart, parsed, hiRead, given, ctor>>
    /\ UNCHANGED <<ser, regVars, fixedVars>>

\* StructMessage.serialize, which ClientMarketingMessageUpdate2 inherits
StructMessage_serialize(o) == [err |-> NotImplementedError, bytes |-> <<>>]

\* a caller's i.serialize()
CallSerialize(i) ==
    /\ AtRest
    /\ ser' = <<[obj |-> i] @@ StructMessage_serialize(objs[i])>>
    /\ mutated' = 0
    /\ before' = <<>>
    /\ UNCHANGED <<loadVars, ctor, regVars, fixedVars>>

HeapInit == LoadIdle /\ HeapIdle /\ RegIdle /\ FixedIdle

HeapNext ==
    \/ \E d \in {None} \cup {Bytes(b) : b \in HeapBuffers} : Construct(d)
    \/ Unwind
    \/ \E i \in 1..Len(objs), b \in HeapBuffers : CallLoad(i, b)
    \/ LoadNext
    \/ \E i \in 1..Len(objs) : AppendTo(i, OneRecord)
    \/ \E i \in 1..Len(objs) : RemoveFrom(i)
    \/ \E i \in 1..Len(objs) : CallSerialize(i)

SpecHeap == HeapInit /\ [][HeapNext]_vars

\* C6: serialize on a ClientMarketingMessageUpdate2 returns bytes, with no
\* error: the header with time and the count taken from the list's length,
\* then each record as recordLength, id, url bytes, pad byte, flags (the
\* bytes load decodes back to the message).
C6_SerializeReturnsEncoding ==
    ser # <<>> =>
        LET o == objs[ser[1].obj] IN
        /\ ser[1].err = NoError
        /\ ser[1].bytes = Encode(Time(o), Count(o), Messages(o))

\* C5: a caller's append to, or removal from, one instance's messages list
\* leaves the messages list of every other instance as it was.
C5_OtherInstancesUnchanged ==
    mutated # 0 =>
        \A j \in 1..Len(objs) : j # mutated => Messages(objs[j]) = before[j]

----------------------------------------------------------------------------
(* The registry: _emsg_map, StructMessageMeta and get_struct, under SpecReg *)

MaxClasses == 3

\* steam.enums.emsg.EMsg, by name: the members this module's classes are
\* named after (EMsg[name] raises KeyError for any other name)
EMsg == [ChannelEncryptRequest  |-> 1303,
         ChannelEncryptResult   |-> 1305,
         ClientLogOnResponse    |-> 751]

\* the names a class statement may carry: the base class, members of EMsg,
\* and a name EMsg does not have
ClassNames == {"StructMessage", "ChannelEncryptRequest", "ChannelEncryptResult",
               "ClientLogOnResponse", "Helper"}

\* the keys get_struct is asked for: registered or not, named in EMsg or not
LookupKeys == {1303, 1305, 751, 5510, 0}

\* a class object, and None
Class(name, serial) == [name |-> name, serial |-> serial]
NoneValue == Class("None", 0)

\* dict: d[k] = v, and d.get(k, default)
DictSet(d, k, v) == [x \in DOMAIN d \cup {k} |-> IF x = k THEN v ELSE d[x]]
DictGet(d, k, default) == IF k \in DOMAIN d THEN d[k] ELSE default

\* a faulty variant of Register: an identifier keeps the first class registered
RegisterFirstWins(m, name, cls) ==
    IF name # "StructMessage" /\ name \in DOMAIN EMsg /\ EMsg[name] \notin DOMAIN m
    THEN DictSet(m, EMsg[name], cls)
    ELSE m

\* StructMessageMeta.__new__, lines 18-22
Register(m, name, cls) ==
    IF name # "StructMessage"
    THEN IF name \in DOMAIN EMsg
         THEN DictSet(m, EMsg[name], cls)
         ELSE m                           \* KeyError: pass
    ELSE m

\* get_struct(emsg)
get_struct(m, emsg) == DictGet(m, emsg, NoneValue)

\* a class statement `class <name>(StructMessage)`
DefineClass(name) ==
    /\ Len(defined) < MaxClasses
    /\ LET cls == Class(name, Len(defined) + 1) IN
       /\ emsg_map' = Register(emsg_map, name, cls)
       /\ defined' = Append(defined, cls)
    /\ got' = <<>>
    /\ UNCHANGED <<loadVars, heapVars, fixedVars>>

\* a caller's get_struct(k)
GetStruct(k) ==
    /\ got' = <<[key |-> k, value |-> get_struct(emsg_map, k)]>>
    /\ UNCHANGED <<emsg_map, defined>>
    /\ UNCHANGED <<loadVars, heapVars, fixedVars>>

RegInit == LoadIdle /\ HeapIdle /\ RegIdle /\ FixedIdle

RegNext ==
    \/ \E name \in ClassNames : DefineClass(name)
    \/ \E k \in LookupKeys : GetStruct(k)

SpecReg == RegInit /\ [][RegNext]_vars

\* the class defined last under a name that EMsg maps to k, None if none
LastRegistered(k) ==
    LET S == {i \in 1..Len(defined) :
                 /\ defined[i].name # "StructMessage"
                 /\ defined[i].name \in DOMAIN EMsg
                 /\ EMsg[defined[i].name] = k}
    IN  IF S = {} THEN NoneValue
        ELSE defined[CHOOSE i \in S : \A j \in S : j <= i]

\* C4: after any sequence of class definitions get_struct(k) is the class
\* registered last under k and None for a k never registered, the result of
\* the last call is that value, and the registry holds identifiers that were
\* registered and no others (a lookup adds nothing).
C4_LastWriterWins ==
    /\ \A k \in LookupKeys : get_struct(emsg_map, k) = LastRegistered(k)
    /\ DOMAIN emsg_map = {k \in LookupKeys : LastRegistered(k) # NoneValue}
    /\ got # <<>> => got[1].value = LastRegistered(got[1].key)

C4_Witness ==
    /\ got # <<>> /\ got[1].key = 1303 /\ got[1].value = Class("ChannelEncryptRequest", 2)
    /\ defined[1] = Class("ChannelEncryptRequest", 1)
    /\ get_struct(emsg_map, 5510) = NoneValue

----------------------------------------------------------------------------
(* The fixed-layout messages, under SpecFixed *)

\* a string value: bytes, or text (str under Python 3, unicode under 2)
StrBytes(v) == [t |-> "bytes", v |-> v]
StrText(v)  == [t |-> "text",  v |-> v]

\* a '' or "" literal of the source: text under Python 3, bytes under 2
Native(p3, v) == IF p3 THEN StrText(v) ELSE StrBytes(v)

\* steam.enums: the values that are members (a call with any other value
\* raises ValueError); Invalid is 0 in both
EUniverseValues == {0, 1, 2, 3, 4, 5}
EResultValues   == {0, 1, 2, 3, 5}

FixedKinds == {"ChannelEncryptRequest", "ChannelEncryptResponse",
               "ChannelEncryptResult", "ClientLogOnResponse",
               "ClientVACBanStatus", "ClientChatMsg", "ClientJoinChat",
               "ClientChatMemberInfo"}

\* the class bodies: each class's attributes and their values
ClassAttrs(k, p3) ==
    CASE k = "ChannelEncryptRequest" ->
            [protocolVersion |-> 1, universe |-> 0, challenge |-> StrBytes(<<>>)]
      [] k = "ChannelEncryptResponse" ->
            [protocolVersion |-> 1, keySize |-> 128, key |-> Native(p3, <<>>),
             crc |-> 0]
      [] k = "ChannelEncryptResult" -> [eresult |-> 0]
      [] k = "ClientLogOnResponse"  -> [eresult |-> 0]
      [] k = "ClientVACBanStatus"   -> [numBans |-> 0]
      [] k = "ClientChatMsg" ->
            [steamIdChatter |-> 0, steamIdChatRoom |-> 0, ChatMsgType |-> 0,
             text |-> Native(p3, <<>>)]
      [] k = "ClientJoinChat" -> [steamIdChat |-> 0, isVoiceSpeaker |-> FALSE]
      [] k = "ClientChatMemberInfo" ->
            [steamIdChat |-> 0, type |-> 0, steamIdUserActedOn |-> 0,
             chatAction |-> 0, steamIdUserActedBy |-> 0]

\* what attribute lookup on an instance sees: its __dict__ over the class's
Attrs(k, p3, o) ==
    [a \in DOMAIN ClassAttrs(k, p3) \cup DOMAIN o |->
        IF a \in DOMAIN o THEN o[a] ELSE ClassAttrs(k, p3)[a]]

\* the bytes of each class's struct format (struct.calcsize of it)
FormatSize(k) ==
    CASE k = "ChannelEncryptRequest"  -> 4 + 4
      [] k = "ChannelEncryptResponse" -> 4 + 4 + 128 + 4 + 4
      [] k = "ChannelEncryptResult"   -> 4
      [] k = "ClientLogOnResponse"    -> 4
      [] k = "ClientVACBanStatus"     -> 4
      [] k = "ClientChatMsg"          -> 8 + 8 + 4
      [] k = "ClientJoinChat"         -> 8 + 1
      [] k = "ClientChatMemberInfo"   -> 8 + 4 + 8 + 4 + 8

\* struct.pack of an "<n>s" item: cut or zero-padded to n bytes
PadTo(v, n) == [i \in 1..n |-> IF i <= Len(v) THEN v[i] ELSE 0]

PackBool(b) == IF b THEN <<1>> ELSE <<0>>

\* UTF-8, for code points below 2048 (one or two bytes each)
RECURSIVE Utf8Encode(_)
Utf8Encode(cps) ==
    IF cps = <<>> THEN <<>>
    ELSE LET c == Head(cps) IN
         (IF c < 128 THEN <<c>> ELSE <<192 + (c \div 64), 128 + (c % 64)>>)
            \o Utf8Encode(Tail(cps))

RECURSIVE Utf8Valid(_)
Utf8Valid(b) ==
    IF b = <<>> THEN TRUE
    ELSE IF b[1] < 128 THEN Utf8Valid(Tail(b))
    ELSE IF b[1] >= 194 /\ b[1] <= 223 /\ Len(b) >= 2 /\ b[2] >= 128 /\ b[2] <= 191
         THEN Utf8Valid(SubSeq(b, 3, Len(b)))
         ELSE FALSE

RECURSIVE Utf8Decode(_)
Utf8Decode(b) ==
    IF b = <<>> THEN <<>>
    ELSE IF b[1] < 128 THEN <<b[1]>> \o Utf8Decode(Tail(b))
    ELSE <<(b[1] - 192) * 64 + (b[2] - 128)>> \o Utf8Decode(SubSeq(b, 3, Len(b)))

IsAscii(v) == \A i \in 1..Len(v) : v[i] < 128

Ok(b)     == [err |-> NoError, bytes |-> b]
Fail(e)   == [err |-> e, bytes |-> <<>>]

\* ClientChatMsg.serialize, lines 144-148: the text's bytes.  Python 3
\* encodes a str and takes bytes as they are; Python 2 calls encode on
\* both, which for a byte string decodes it as ASCII first
ChatTextBytes(p3, text) ==
    IF text.t = "text" THEN Ok(Utf8Encode(text.v))
    ELSE IF p3 THEN Ok(text.v)
    ELSE IF IsAscii(text.v) THEN Ok(text.v) ELSE Fail(UnicodeDecodeError)

Loaded(o)    == [err |-> NoError, obj |-> o]
Raised(e, o) == [err |-> e, obj |-> o]

\* Each serialize takes the attributes the instance shows (a) and gives the
\* bytes or the exception raised; each load takes the instance's __dict__ (o)
\* and the buffer (d) and gives the exception raised (or none) with the
\* __dict__ afterwards.

ChannelEncryptRequest_serialize(a) ==
    Ok(PackUInt(a.protocolVersion, 4) \o PackUInt(a.universe, 4) \o a.challenge.v)

ChannelEncryptRequest_load(o, d) ==
    LET u == UnpackFrom(<<Item("I"), Item("I")>>, d, 0) IN
    IF u.err # NoError THEN Raised(u.err, o)
    ELSE LET o1 == DictSet(o, "protocolVersion", u.vals[1]) IN
         IF u.vals[2] \notin EUniverseValues THEN Raised(ValueError, o1)
         ELSE LET o2 == DictSet(o1, "universe", u.vals[2]) IN
              IF Len(d) > 8
              THEN Loaded(DictSet(o2, "challenge", StrBytes(SubSeq(d, 9, Len(d)))))
              ELSE Loaded(o2)

ChannelEncryptResponse_serialize(a) ==
    IF a.key.t # "bytes" THEN Fail(StructError)
    ELSE Ok(PackUInt(a.protocolVersion, 4) \o PackUInt(a.keySize, 4)
              \o PadTo(a.key.v, 128) \o PackUInt(a.crc, 4) \o PackUInt(0, 4))

ChannelEncryptResponse_load(o, d) ==
    LET u == UnpackFrom(<<Item("I"), Item("I"), Str(128), Item("I"), Item("I")>>, d, 0)
    IN  IF u.err # NoError THEN Raised(u.err, o)
        ELSE Loaded(DictSet(DictSet(DictSet(DictSet(o,
                "protocolVersion", u.vals[1]), "keySize", u.vals[2]),
                "key", StrBytes(u.vals[3])), "crc", u.vals[4]))

\* ChannelEncryptResult and ClientLogOnResponse have the same two methods
EResult_serialize(a) == Ok(PackUInt(a.eresult, 4))

EResult_load(o, d) ==
    LET u == UnpackFrom(<<Item("I")>>, d, 0) IN
    IF u.err # NoError THEN Raised(u.err, o)
    ELSE IF u.vals[1] \notin EResultValues THEN Raised(ValueError, o)
    ELSE Loaded(DictSet(o, "eresult", u.vals[1]))

ClientVACBanStatus_serialize(a) ==
    IF "steamIdChat" \notin DOMAIN a THEN Fail(AttributeError)
    ELSE Ok(PackUInt(a.steamIdChat, 4))

ClientVACBanStatus_load(o, d) ==
    LET u == UnpackFrom(<<Item("L")>>, d, 0) IN
    IF u.err # NoError THEN Raised(u.err, o)
    ELSE Loaded(DictSet(o, "steamIdChat", u.vals[1]))

ClientChatMsg_serialize(p3, a) ==
    LET t == ChatTextBytes(p3, a.text) IN
    IF t.err # NoError THEN t
    ELSE Ok(PackUInt(a.steamIdChatter, 8) \o PackUInt(a.steamIdChatRoom, 8)
              \o PackUInt(a.ChatMsgType, 4) \o t.bytes \o <<0>>)

ClientChatMsg_load(o, d) ==
    LET fmt == <<Item("Q"), Item("Q"), Item("I")>>
        u   == UnpackFrom(fmt, d, 0)
    IN  IF u.err # NoError THEN Raised(u.err, o)
        ELSE LET o1 == DictSet(DictSet(DictSet(o,
                          "steamIdChatter", u.vals[1]), "steamIdChatRoom", u.vals[2]),
                          "ChatMsgType", u.vals[3])
                 \* data[calcsize:-1]
                 t  == SubSeq(d, CalcSize(fmt) + 1, Len(d) - 1)
             IN  IF Utf8Valid(t)
                 THEN Loaded(DictSet(o1, "text", StrText(Utf8Decode(t))))
                 ELSE Raised(UnicodeDecodeError, o1)

ClientJoinChat_serialize(a) ==
    Ok(PackUInt(a.steamIdChat, 8) \o PackBool(a.isVoiceSpeaker))

ClientJoinChat_load(o, d) ==
    LET u == UnpackFrom(<<Item("Q"), Item("?")>>, d, 0) IN
    IF u.err # NoError THEN Raised(u.err, o)
    ELSE Loaded(DictSet(DictSet(o, "steamIdChat", u.vals[1]),
                        "isVoiceSpeaker", u.vals[2]))

ClientChatMemberInfo_serialize(a) ==
    Ok(PackUInt(a.steamIdChat, 8) \o PackUInt(a.type, 4)
         \o PackUInt(a.steamIdUserActedOn, 8) \o PackUInt(a.chatAction, 4)
         \o PackUInt(a.steamIdUserActedBy, 8))

ClientChatMemberInfo_load(o, d) ==
    LET u == UnpackFrom(<<Item("Q"), Item("I"), Item("Q"), Item("I"), Item("Q")>>, d, 0)
    IN  IF u.err # NoError THEN Raised(u.err, o)
        ELSE Loaded(DictSet(DictSet(DictSet(DictSet(DictSet(o,
                "steamIdChat", u.vals[1]), "type", u.vals[2]),
                "steamIdUserActedOn", u.vals[3]), "chatAction", u.vals[4]),
                "steamIdUserActedBy", u.vals[5]))

\* m.serialize() on an instance of class k
Serialize(k, p3, o) ==
    LET a == Attrs(k, p3, o) IN
    CASE k = "ChannelEncryptRequest"  -> ChannelEncryptRequest_serialize(a)
      [] k = "ChannelEncryptResponse" -> ChannelEncryptResponse_serialize(a)
      [] k = "ChannelEncryptResult"   -> EResult_serialize(a)
      [] k = "ClientLogOnResponse"    -> EResult_serialize(a)
      [] k = "ClientVACBanStatus"     -> ClientVACBanStatus_serialize(a)
      [] k = "ClientChatMsg"          -> ClientChatMsg_serialize(p3, a)
      [] k = "ClientJoinChat"         -> ClientJoinChat_serialize(a)
      [] k = "ClientChatMemberInfo"   -> ClientChatMemberInfo_serialize(a)

\* m.load(d) on an instance of class k
Load(k, o, d) ==
    CASE k = "ChannelEncryptRequest"  -> ChannelEncryptRequest_load(o, d)
      [] k = "ChannelEncryptResponse" -> ChannelEncryptResponse_load(o, d)
      [] k = "ChannelEncryptResult"   -> EResult_load(o, d)
      [] k = "ClientLogOnResponse"    -> EResult_load(o, d)
      [] k = "ClientVACBanStatus"     -> ClientVACBanStatus_load(o, d)
      [] k = "ClientChatMsg"          -> ClientChatMsg_load(o, d)
      [] k = "ClientJoinChat"         -> ClientJoinChat_load(o, d)
      [] k = "ClientChatMemberInfo"   -> ClientChatMemberInfo_load(o, d)

\* StructMessage.__init__ on a new instance
StructMessage_init(k, d) ==
    IF Truthy(d) THEN Load(k, <<>>, d.bytes) ELSE Loaded(<<>>)

\* the values a caller assigns to each field
FieldValues(k, a) ==
    CASE a \in {"challenge"} -> {StrBytes(<<>>), StrBytes(<<7, 7>>)}
      [] a = "key"           -> {StrBytes(<<1, 2>>), StrBytes(Rep(9, 128))}
      [] a = "text"          -> {StrText(<<>>), StrText(<<104, 105>>), StrText(<<233>>)}
      [] a = "isVoiceSpeaker" -> BOOLEAN
      [] a = "keySize"       -> {128}
      [] a = "universe"      -> {0, 1}
      [] a = "eresult"       -> {1, 5}
      [] a = "protocolVersion" -> {1, 2}
      [] OTHER               -> {0, 3}

\* the buffers a caller decodes: whole messages, and these cut short
WireSamples(k) ==
    CASE k = "ChannelEncryptRequest" ->
            {PackUInt(1, 4) \o PackUInt(u, 4) \o c : u \in {1, 9}, c \in {<<>>, <<7, 7>>}}
      [] k = "ChannelEncryptResponse" ->
            {PackUInt(1, 4) \o PackUInt(128, 4) \o Rep(9, 128) \o PackUInt(5, 4)
               \o PackUInt(0, 4)}
      [] k \in {"ChannelEncryptResult", "ClientLogOnResponse"} ->
            {PackUInt(1, 4), PackUInt(4, 4)}
      [] k = "ClientVACBanStatus" -> {PackUInt(3, 4)}
      [] k = "ClientChatMsg" ->
            {PackUInt(1, 8) \o PackUInt(2, 8) \o PackUInt(1, 4) \o t \o <<0>> :
                t \in {<<>>, <<104, 105>>, <<195, 169>>, <<255>>}}
      [] k = "ClientJoinChat" -> {PackUInt(1, 8) \o <<1>>}
      [] k = "ClientChatMemberInfo" ->
            {PackUInt(1, 8) \o PackUInt(2, 4) \o PackUInt(3, 8) \o PackUInt(4, 4)
               \o PackUInt(5, 8)}

TestBuffers(k) ==
    WireSamples(k) \cup
    {SubSeq(w, 1, n) : w \in WireSamples(k),
                       n \in {0, 1, FormatSize(k) - 1, FormatSize(k)}}

\* a caller's m.<a> = v on a message it is building
SetField(a, v) ==
    /\ op \in {"new", "set"}
    /\ msg' = DictSet(msg, a, v)
    /\ op' = "set"
    /\ UNCHANGED <<py3, kind, wire, copy, arg, res>>
    /\ UNCHANGED <<loadVars, heapVars, regVars>>

\* a caller's m.serialize(), on a message it built or decoded
DoSerialize ==
    /\ op \in {"new", "set"} \/ (op \in {"load", "construct"} /\ res = NoError)
    /\ wire' = Serialize(kind, py3, msg)
    /\ op' = "serialize"
    /\ UNCHANGED <<py3, kind, msg, copy, arg, res>>
    /\ UNCHANGED <<loadVars, heapVars, regVars>>

\* a caller's decode of the bytes serialize returned, into a new instance
DoDecode ==
    /\ op = "serialize"
    /\ wire.err = NoError
    /\ copy' = StructMessage_init(kind, Bytes(wire.bytes))
    /\ op' = "decode"
    /\ UNCHANGED <<py3, kind, msg, wire, arg, res>>
    /\ UNCHANGED <<loadVars, heapVars, regVars>>

\* a caller's m.load(b), on the instance as it is
DoLoad(b) ==
    /\ op \in {"new", "set", "load", "construct"}
    /\ LET r == Load(kind, msg, b) IN
       /\ msg' = r.obj
       /\ res' = r.err
    /\ arg' = Bytes(b)
    /\ op' = "load"
    /\ UNCHANGED <<py3, kind, wire, copy>>
    /\ UNCHANGED <<loadVars, heapVars, regVars>>

\* a caller's m = <class>(d), replacing the message
DoConstruct(d) ==
    /\ op \in {"new", "set", "load", "construct"}
    /\ LET r == StructMessage_init(kind, d) IN
       /\ msg' = r.obj
       /\ res' = r.err
    /\ arg' = d
    /\ op' = "construct"
    /\ UNCHANGED <<py3, kind, wire, copy>>
    /\ UNCHANGED <<loadVars, heapVars, regVars>>

FixedInit ==
    /\ LoadIdle /\ HeapIdle /\ RegIdle
    /\ py3 \in BOOLEAN
    /\ kind \in FixedKinds
    /\ msg = <<>>
    /\ op = "new"
    /\ wire = Ok(<<>>)
    /\ copy = Loaded(<<>>)
    /\ arg = None
    /\ res = NoError

FixedNext ==
    \/ \E a \in DOMAIN ClassAttrs(kind, py3) :
         \E v \in FieldValues(kind, a) : SetField(a, v)
    \/ DoSerialize
    \/ DoDecode
    \/ \E b \in TestBuffers(kind) : DoLoad(b)
    \/ \E b \in TestBuffers(kind) \cup {<<>>} : DoConstruct(Bytes(b))
    \/ DoConstruct(None)

SpecFixed == FixedInit /\ [][FixedNext]_vars

\* Python's ==, on the values of attribute a
PyEq(p3, a, x, y) ==
    IF a \in {"challenge", "key", "text"}
    THEN \/ x = y
         \/ ~p3 /\ x.v = y.v /\ IsAscii(x.v)
    ELSE x = y

\* C7: serialize on a message with in-range fields returns bytes, and the
\* message decoded from them has every field of the class equal to the
\* original's.
C7_RoundTrip ==
    /\ op = "serialize" => wire.err = NoError
    /\ op = "decode" =>
          /\ copy.err = NoError
          /\ \A a \in DOMAIN ClassAttrs(kind, py3) :
                PyEq(py3, a, Attrs(kind, py3, copy.obj)[a], Attrs(kind, py3, msg)[a])

\* C8: a decode, by load or by the constructor, of a buffer shorter than the
\* class's format ends with the struct module's buffer error.
C8_ShortBufferRaises ==
    (op \in {"load", "construct"} /\ ~arg.none
        /\ Len(arg.bytes) < FormatSize(kind))
        => res = StructError

\* C10: after a successful ChannelEncryptRequest.load(data), challenge is the
\* bytes of data after the first 8.
C10_ChallengeFromInput ==
    (kind = "ChannelEncryptRequest" /\ op = "load" /\ res = NoError)
        => Attrs(kind, py3, msg).challenge
              = StrBytes(SubSeq(arg.bytes, 9, Len(arg.bytes)))

----------------------------------------------------------------------------
(* Properties of ClientMarketingMessageUpdate2.load, under SpecLoad *)

\* C1: once load has read a record length whose text width (length - 16) is
\* smaller than 1, load has ended by raising struct.error, the exception by
\* which this code reports a malformed record, and no unpack has read a byte
\* beyond the end of the buffer.
C1_BadWidthRaises ==
    (length # <<>> /\ length[1] - 16 < 1)
        => (pc = "raised" /\ err = StructError /\ hiRead <= Len(data))

C1_Witness ==
    /\ length # <<>> /\ length[1] - 16 < 1
    /\ pc = "raised" /\ iter > 0 /\ hiRead = recStart + 4

\* C2: whenever a loop pass has parsed a record the offset is at most the
\* buffer's length, and load returns only with the offset equal to it.
C2_OffsetWithinBuffer ==
    /\ parsed => offset <= Len(data)
    /\ pc = "done" => offset = Len(data)

C2_Witness ==
    pc = "done" /\ parsed /\ iter = MaxRecords /\ offset = Len(data)

\* C3: a buffer made of the header and well-formed records decodes, without
\* an error, to exactly those records in order; time is the header's, count
\* is the number of records (whatever the header declared) and the final
\* offset is the buffer's length.
C3_WellFormedDecodes ==
    given.wf =>
        /\ pc # "raised"
        /\ pc = "done" =>
              /\ Messages(objs[self]) = given.recs
              /\ Count(objs[self]) = Len(given.recs)
              /\ Time(objs[self]) = given.time
              /\ offset = Len(data)

C3_Witness ==
    /\ pc = "done" /\ given.wf
    /\ given.time = 100 /\ given.count = 0
    /\ Messages(objs[self]) =
          <<MarketingMessage(1, <<97>>, 0), MarketingMessage(2, <<98, 98>>, 5)>>
    /\ Count(objs[self]) = 2

\* C9, as stated: after a record that starts at offset o and declares length
\* L is parsed, the next record is read at o + 4 + L.
C9_NextAtStartPlus4PlusLength ==
    parsed => offset = recStart + 4 + length[1]

\* C9, amended: the next record is read at o + L (the declared length counts
\* its own four bytes).
C9_NextAtStartPlusLength ==
    parsed => offset = recStart + length[1]

C9_Witness ==
    parsed /\ pc = "loop" /\ offset < Len(data) /\ offset = recStart + length[1]

====
